---- MODULE Spec2Model ----
(***************************************************************************)
(* Request instrumentation of pluggedin-observability:                     *)
(*   src/instrumentation/python-logging.py  (trace context, JSON logs,     *)
(*                                            LoggingMiddleware, helpers)  *)
(*   src/instrumentation/python-metrics.py  (registry series,              *)
(*                                            MetricsMiddleware, helpers)  *)
(* Requests are asyncio tasks: the code between two awaits runs as one     *)
(* step, and tasks interleave at the awaits (call_next, awaited work).     *)
(* Time is counted in ticks of 10 ms.                                      *)
(***************************************************************************)
EXTENDS Integers, Sequences, FiniteSets, TLC

VARIABLES
    ENVIRONMENT,          \* os.getenv("ENVIRONMENT"), read once at import
    LOG_LEVEL,            \* os.getenv("LOG_LEVEL"), as a logging level number
    chain,                \* the middlewares the application added, outermost first
    now,                  \* time.time(), in ticks
    nextUuid,             \* how many uuid4 tokens have been generated
    trace_id_var,         \* ContextVar: the value in each task's context
    log,                  \* the console handler's stream: formatted records
    request,              \* each task's Request object
    lpc, lStart, lTrace, lres,    \* LoggingMiddleware.dispatch frame of each task
    mpc, mStart, mEnd, mres,      \* MetricsMiddleware.dispatch frame of each task
    hpc, hres,                    \* the application's handler for each task
    active_requests,      \* Gauge http_requests_active{service}
    http_requests_total,  \* Counter children by label tuple
    http_request_duration,        \* Histogram children by label tuple
    http_request_size,
    http_response_size,
    opc, op, oStart, owork, ores, \* instrumented operations, one per task
    vector_search_duration,       \* Histogram children by label tuple
    db_connection_pool    \* Gauge children by label tuple

cfgVars  == <<ENVIRONMENT, LOG_LEVEL, chain>>
logVars  == <<nextUuid, trace_id_var, log, lpc, lStart, lTrace, lres>>
metVars  == <<mpc, mStart, mEnd, mres, active_requests, http_requests_total,
              http_request_duration, http_request_size, http_response_size,
              db_connection_pool>>
appVars  == <<request, hpc, hres, now>>
opVars   == <<opc, op, oStart, owork, ores, vector_search_duration>>
vars     == <<cfgVars, logVars, metVars, appVars, opVars>>

----------------------------------------------------------------------------
(* Bounds of the model *)

NumRequests == 2
MaxDelay == 1
MaxPool == 2

Requests == 1..NumRequests
Delays == 0..MaxDelay
PoolSizes == 0..MaxPool

----------------------------------------------------------------------------
(* Values *)

\* Python None, and a header that is absent
NoValue == "<None>"

SERVICE_NAME == "pluggedin-service"
APP_VERSION == "1.0.0"

\* logging's level numbers
DEBUG == 10
INFO == 20
WARNING == 30
ERROR == 40

LevelName(levelno) ==
    CASE levelno = DEBUG -> "DEBUG"
      [] levelno = INFO -> "INFO"
      [] levelno = WARNING -> "WARNING"
      [] levelno = ERROR -> "ERROR"

Environments == {"production", "development"}
\* the levels a server is run at, and those the helpers are exercised at
LogLevels == {INFO, WARNING}
OpLogLevels == {DEBUG, INFO, WARNING}
Chains == { <<"logging">>, <<"metrics">>,
            <<"logging", "metrics">>, <<"metrics", "logging">> }

\* What a client can send: a path, an X-Trace-ID header (absent, empty or
\* V1) and a content-length header (absent, 0, 5 or no integer)
Get(path, trace, length) ==
    [method |-> "GET", path |-> path, query_params |-> "", client_ip |-> "10.0.0.9",
     user_agent |-> "curl", x_trace_id |-> trace, content_length |-> length]

RequestInputs ==
    { Get("/users/1", NoValue, NoValue),
      Get("/users/1", "V1", "5"),
      Get("/users/2", "", "0"),
      Get("/users/2", NoValue, "abc") }

NoRequest ==
    [method |-> NoValue, path |-> NoValue, query_params |-> NoValue,
     client_ip |-> NoValue, user_agent |-> NoValue, x_trace_id |-> NoValue,
     content_length |-> NoValue]

\* What the application's handler can do: return a response, raise, or be
\* cancelled by the framework (CancelledError is raised at the await)
Response(status, length, trace, ctype) ==
    [kind |-> "response", status_code |-> status, body |-> "body",
     content_length |-> length, x_trace_id |-> trace, content_type |-> ctype,
     exc |-> NoValue]

Raise(e) ==
    [kind |-> "raise", status_code |-> 0, body |-> NoValue,
     content_length |-> NoValue, x_trace_id |-> NoValue, content_type |-> NoValue,
     exc |-> e]

NoResult ==
    [kind |-> "none", status_code |-> 0, body |-> NoValue,
     content_length |-> NoValue, x_trace_id |-> NoValue, content_type |-> NoValue,
     exc |-> NoValue]

HandlerOutcomes ==
    { Response(200, "7", NoValue, "application/json"),
      Response(200, "abc", NoValue, "application/json"),
      Response(404, NoValue, "handler-trace", "text/plain"),
      Response(503, "0", NoValue, "application/json"),
      Raise("RuntimeError"),
      Raise("CancelledError") }

----------------------------------------------------------------------------
(* Python's int(str) on the header values above *)

IsInt(s) == s \in {"0", "5", "7"}

IntOf(s) ==
    CASE s = "0" -> 0
      [] s = "5" -> 5
      [] s = "7" -> 7

\* int(headers.get("content-length", 0)): a record saying whether int() raised
HeaderInt(v) ==
    IF v = NoValue THEN [ok |-> TRUE, val |-> 0]
    ELSE IF IsInt(v) THEN [ok |-> TRUE, val |-> IntOf(v)]
    ELSE [ok |-> FALSE, val |-> 0]

----------------------------------------------------------------------------
(* Trace context *)

Truthy(v) == v # NoValue /\ v # ""

\* faulty variant: a generator that repeats itself
generate_trace_id_fixed(n) == "uuid-0"

\* generate_trace_id(): str(uuid.uuid4()); the n-th token drawn, taken to be
\* unlike every other token drawn and unlike what clients send
generate_trace_id(n) == "uuid-" \o ToString(n)

\* faulty variant: the inbound header is ignored
AssignTraceId_ignore(header, n) == generate_trace_id(n)

\* request.headers.get("x-trace-id") or generate_trace_id()
AssignTraceId(header, n) ==
    IF Truthy(header) THEN header ELSE generate_trace_id(n)

\* faulty variant: one module-level variable shared by all tasks
set_trace_id_shared(ctx, task, trace_id) == [t \in DOMAIN ctx |-> trace_id]

\* set_trace_id: trace_id_var.set(trace_id) in the context of the running task
set_trace_id(ctx, task, trace_id) == [ctx EXCEPT ![task] = trace_id]

\* faulty variant: a module-level variable, read by whoever asks
get_trace_id_global(ctx, task) ==
    IF \E t \in DOMAIN ctx : Truthy(ctx[t])
    THEN ctx[CHOOSE t \in DOMAIN ctx : Truthy(ctx[t])]
    ELSE NoValue

\* get_trace_id: trace_id_var.get() in the context of the running task
get_trace_id(ctx, task) == ctx[task]

----------------------------------------------------------------------------
(* Structured log emitter *)

\* logging.LogRecord: what one logger call hands to the handler
LogRecord(levelno, message, lineno, funcName, extra, exc, created) ==
    [levelno |-> levelno, message |-> message, lineno |-> lineno,
     funcName |-> funcName, extra |-> extra, exc |-> exc, created |-> created]

\* the traceback text both formatters add when exc_info is given
ExcText(record) ==
    IF record.exc = NoValue THEN <<>> ELSE [exc_info |-> record.exc]

\* logging.Formatter("%(asctime)s - %(name)s - %(levelname)s - %(message)s")
DevelopmentDoc(record) ==
    [asctime |-> record.created, name |-> SERVICE_NAME,
     levelname |-> LevelName(record.levelno), message |-> record.message]
    @@ ExcText(record)

\* CustomJsonFormatter.add_fields: the caller's extra fields first, the
\* computed fields written over them, trace_id only when the context holds one
add_fields(ctx, task, record) ==
    LET computed ==
            [timestamp |-> record.created, service |-> SERVICE_NAME,
             environment |-> ENVIRONMENT, version |-> APP_VERSION,
             level |-> LevelName(record.levelno), logger |-> SERVICE_NAME,
             file |-> "python-logging.py", line |-> record.lineno,
             function |-> record.funcName, message |-> record.message]
        trace_id == get_trace_id(ctx, task)
        traced == IF Truthy(trace_id) THEN [trace_id |-> trace_id] ELSE <<>>
    IN  traced @@ computed @@ ExcText(record) @@ record.extra

\* formatter: the plain line in development, the JSON document otherwise
Format(ctx, task, record) ==
    IF ENVIRONMENT = "development"
    THEN DevelopmentDoc(record)
    ELSE add_fields(ctx, task, record)

\* Logger.log: the call is dropped below the logger's level, otherwise the
\* record is formatted and written to the stream in one write
Emit(stream, ctx, task, record) ==
    IF record.levelno >= LOG_LEVEL
    THEN Append(stream, [task |-> task, doc |-> Format(ctx, task, record)])
    ELSE stream

----------------------------------------------------------------------------
(* Metric registry: prometheus_client series, children keyed by label tuple *)

\* bucket upper bounds; durations in ticks of 10 ms, sizes in bytes
DurationBuckets == <<1, 5, 10, 50, 100, 200, 500, 1000>>
SizeBuckets == <<100, 1000, 5000, 10000, 50000, 100000, 500000, 1000000>>

NoChildren == <<>>

\* faulty variant: an increment that writes back a stale value (a lost update)
CounterInc_lost(metric, labels) ==
    [l \in DOMAIN metric \cup {labels} |-> IF l = labels THEN 1 ELSE metric[l]]

\* Counter.labels(...).inc()
CounterInc(metric, labels) ==
    [l \in DOMAIN metric \cup {labels} |->
        IF l = labels
        THEN (IF labels \in DOMAIN metric THEN metric[labels] ELSE 0) + 1
        ELSE metric[l]]

\* a histogram child: the sum and one count per bucket, the last one +Inf
EmptyHistogram(bounds) ==
    [sum |-> 0, buckets |-> [i \in 1..(Len(bounds) + 1) |-> 0]]

\* faulty variant: a value equal to an upper bound falls in the next bucket
BucketOf_exclusive(bounds, value) ==
    IF \E i \in 1..Len(bounds) : value < bounds[i]
    THEN CHOOSE i \in 1..Len(bounds) :
            /\ value < bounds[i]
            /\ \A j \in 1..(i - 1) : value >= bounds[j]
    ELSE Len(bounds) + 1

\* the first bucket whose upper bound holds the value
BucketOf(bounds, value) ==
    IF \E i \in 1..Len(bounds) : value <= bounds[i]
    THEN CHOOSE i \in 1..Len(bounds) :
            /\ value <= bounds[i]
            /\ \A j \in 1..(i - 1) : value > bounds[j]
    ELSE Len(bounds) + 1

\* faulty variant: a value of 0 is not observed
HistogramObserve_positive(metric, bounds, labels, value) ==
    IF value > 0
    THEN LET child == IF labels \in DOMAIN metric THEN metric[labels]
                      ELSE EmptyHistogram(bounds)
             observed == [sum |-> child.sum + value,
                          buckets |-> [child.buckets EXCEPT
                                          ![BucketOf(bounds, value)] = @ + 1]]
         IN  [l \in DOMAIN metric \cup {labels} |->
                 IF l = labels THEN observed ELSE metric[l]]
    ELSE metric

\* Histogram.labels(...).observe(value)
HistogramObserve(metric, bounds, labels, value) ==
    LET child == IF labels \in DOMAIN metric THEN metric[labels]
                 ELSE EmptyHistogram(bounds)
        b == BucketOf(bounds, value)
        observed == [sum |-> child.sum + value,
                     buckets |-> [child.buckets EXCEPT ![b] = @ + 1]]
    IN  [l \in DOMAIN metric \cup {labels} |->
            IF l = labels THEN observed ELSE metric[l]]

\* Gauge.labels(service=SERVICE_NAME).inc() and .dec()
GaugeInc(value) == value + 1
GaugeDec(value) == value - 1

\* Gauge.labels(...).set(value)
GaugeSet(metric, labels, value) ==
    [l \in DOMAIN metric \cup {labels} |-> IF l = labels THEN value ELSE metric[l]]

----------------------------------------------------------------------------
(* The middleware chain around the application's handler *)

InChain(m) == \E i \in 1..Len(chain) : chain[i] = m

Index(m) == CHOOSE i \in 1..Len(chain) : chain[i] = m

\* what a middleware's call_next runs
Below(m) == IF Index(m) = Len(chain) THEN "handler" ELSE chain[Index(m) + 1]

\* what awaits a stage
Above(stage) ==
    IF stage = "handler" THEN chain[Len(chain)]
    ELSE IF Index(stage) = 1 THEN "server"
    ELSE chain[Index(stage) - 1]

Pc(stage, r) ==
    CASE stage = "logging" -> lpc[r]
      [] stage = "metrics" -> mpc[r]
      [] stage = "handler" -> hpc[r]

Result(stage, r) ==
    CASE stage = "logging" -> lres[r]
      [] stage = "metrics" -> mres[r]
      [] stage = "handler" -> hres[r]

\* the stage has been called and has not begun
Invoked(stage, r) ==
    /\ Pc(stage, r) = "idle"
    /\ IF Above(stage) = "server" THEN request[r] # NoRequest
       ELSE Pc(Above(stage), r) = "pending"

\* the stage awaits call_next, which has ended
Resumed(stage, r) ==
    /\ Pc(stage, r) = "pending"
    /\ Pc(Below(stage), r) = "done"

\* the request's task has ended: its outermost stage has
Ended(r) == Pc(chain[1], r) = "done"

Outcome(r) == Result(chain[1], r)

----------------------------------------------------------------------------
(* The server accepts a request and starts its task *)

Receive(r) ==
    /\ request[r] = NoRequest
    /\ \A q \in Requests : q < r => request[q] # NoRequest
    /\ \E q \in RequestInputs : request' = [request EXCEPT ![r] = q]
    /\ UNCHANGED <<opVars, cfgVars, logVars, metVars, hpc, hres, now>>

----------------------------------------------------------------------------
(* LoggingMiddleware.dispatch *)

\* faulty variant: every status from 400 up is logged as an error
CompletionLevel_client_error(status_code) ==
    IF status_code >= 400 THEN ERROR ELSE INFO

\* the completion record's level, from the status code
CompletionLevel(status_code) ==
    IF status_code >= 500 THEN ERROR
    ELSE IF status_code >= 400 THEN WARNING
    ELSE INFO

\* faulty variant: the start time is read again after the downstream call
DurationMs_restart(start, end) == (end - end) * 10

\* (time.time() - start_time) * 1000, rounded to 2 places; a tick is 10 ms
DurationMs(start, end) == (end - start) * 10

\* faulty variant: the headers are replaced rather than one header set
SetTraceHeader_clobber(response, trace_id) ==
    [response EXCEPT !.x_trace_id = trace_id, !.content_type = NoValue]

\* response.headers["X-Trace-ID"] = trace_id
SetTraceHeader(response, trace_id) == [response EXCEPT !.x_trace_id = trace_id]

\* up to the await of call_next
LogEnter(r) ==
    /\ InChain("logging")
    /\ Invoked("logging", r)
    /\ LET header == request[r].x_trace_id
           trace_id == AssignTraceId(header, nextUuid + 1)
           ctx == set_trace_id(trace_id_var, r, trace_id)
       IN  /\ nextUuid' = IF Truthy(header) THEN nextUuid ELSE nextUuid + 1
           /\ trace_id_var' = ctx
           /\ lTrace' = [lTrace EXCEPT ![r] = trace_id]
           /\ lStart' = [lStart EXCEPT ![r] = now]
           /\ log' = Emit(log, ctx, r,
                          LogRecord(INFO, "Incoming request", 162, "dispatch",
                                    [method |-> request[r].method,
                                     path |-> request[r].path,
                                     query_params |-> request[r].query_params,
                                     client_ip |-> request[r].client_ip,
                                     user_agent |-> request[r].user_agent],
                                    NoValue, now))
    /\ lpc' = [lpc EXCEPT ![r] = "pending"]
    /\ UNCHANGED <<opVars, cfgVars, lres, metVars, appVars>>

\* from the return of call_next on
LogExit(r) ==
    /\ InChain("logging")
    /\ Resumed("logging", r)
    /\ LET response == Result(Below("logging"), r)
       IN  IF response.kind = "raise"
           THEN /\ lres' = [lres EXCEPT ![r] = response]
                /\ UNCHANGED log
           ELSE /\ log' = Emit(log, trace_id_var, r,
                               LogRecord(CompletionLevel(response.status_code),
                                         "Request completed", 188, "dispatch",
                                         [method |-> request[r].method,
                                          path |-> request[r].path,
                                          status_code |-> response.status_code,
                                          duration_ms |-> DurationMs(lStart[r], now)],
                                         NoValue, now))
                /\ lres' = [lres EXCEPT ![r] = SetTraceHeader(response, lTrace[r])]
    /\ lpc' = [lpc EXCEPT ![r] = "done"]
    /\ UNCHANGED <<opVars, cfgVars, nextUuid, trace_id_var, lStart, lTrace, metVars, appVars>>

----------------------------------------------------------------------------
(* MetricsMiddleware.dispatch *)

\* faulty variant: the service label is not filled in
SizeLabels_unlabelled(req) == <<req.method, req.path, "unknown">>

\* labels of http_request_size
SizeLabels(req) == <<req.method, req.path, SERVICE_NAME>>

\* faulty variant: the status class in place of the status code
HttpLabels_class(req, response) ==
    <<req.method, req.path, (response.status_code \div 100) * 100, SERVICE_NAME>>

\* labels of http_requests_total, http_request_duration, http_response_size
HttpLabels(req, response) ==
    <<req.method, req.path, response.status_code, SERVICE_NAME>>

\* up to the await of call_next; int() of the content-length header may raise
MetEnter(r) ==
    /\ InChain("metrics")
    /\ Invoked("metrics", r)
    /\ mStart' = [mStart EXCEPT ![r] = now]
    /\ UNCHANGED mEnd
    /\ active_requests' = GaugeInc(active_requests)
    /\ LET request_size == HeaderInt(request[r].content_length)
       IN  IF ~request_size.ok
           THEN /\ mres' = [mres EXCEPT ![r] = Raise("ValueError")]
                /\ mpc' = [mpc EXCEPT ![r] = "done"]
                /\ UNCHANGED http_request_size
           ELSE /\ http_request_size' =
                      IF request_size.val > 0
                      THEN HistogramObserve(http_request_size, SizeBuckets,
                                            SizeLabels(request[r]), request_size.val)
                      ELSE http_request_size
                /\ mpc' = [mpc EXCEPT ![r] = "pending"]
                /\ UNCHANGED mres
    /\ UNCHANGED <<opVars, cfgVars, logVars, appVars, http_requests_total,
                   http_request_duration, http_response_size, db_connection_pool>>

\* time.time() - start_time, in ticks
Elapsed(start, end) == end - start

\* the statements after the response size has been read
RecordMetrics(r, response, duration, response_size) ==
    /\ http_requests_total' =
          CounterInc(http_requests_total, HttpLabels(request[r], response))
    /\ http_request_duration' =
          HistogramObserve(http_request_duration, DurationBuckets,
                           HttpLabels(request[r], response), duration)
    /\ http_response_size' =
          IF response_size > 0
          THEN HistogramObserve(http_response_size, SizeBuckets,
                                HttpLabels(request[r], response), response_size)
          ELSE http_response_size
    /\ active_requests' = GaugeDec(active_requests)
    /\ mres' = [mres EXCEPT ![r] = response]

\* from the return of call_next on; nothing runs when call_next raised
MetExit(r) ==
    /\ InChain("metrics")
    /\ Resumed("metrics", r)
    /\ LET response == Result(Below("metrics"), r)
           duration == Elapsed(mStart[r], now)
           response_size == HeaderInt(response.content_length)
       IN  IF response.kind = "raise"
           THEN /\ mres' = [mres EXCEPT ![r] = response]
                /\ UNCHANGED <<active_requests, http_requests_total,
                               http_request_duration, http_response_size>>
           ELSE IF ~response_size.ok
           THEN /\ mres' = [mres EXCEPT ![r] = Raise("ValueError")]
                /\ UNCHANGED <<active_requests, http_requests_total,
                               http_request_duration, http_response_size>>
           ELSE RecordMetrics(r, response, duration, response_size.val)
    /\ mEnd' = [mEnd EXCEPT ![r] = now]
    /\ mpc' = [mpc EXCEPT ![r] = "done"]
    /\ UNCHANGED <<opVars, cfgVars, logVars, appVars, mStart, http_request_size,
                   db_connection_pool>>

----------------------------------------------------------------------------
(* The application's handler, awaited by the innermost call_next: it logs in *)
(* its own task, whose context is a copy of the caller's, takes some time    *)
(* and returns a response or raises                                          *)

Handler(r) ==
    /\ Invoked("handler", r)
    /\ \E result \in HandlerOutcomes, d \in Delays :
          /\ hres' = [hres EXCEPT ![r] = result]
          /\ now' = now + d
    /\ hpc' = [hpc EXCEPT ![r] = "done"]
    /\ log' = Emit(log, trace_id_var, r,
                   LogRecord(INFO, "Fetching users", 384, "get_users",
                             [endpoint |-> request[r].path], NoValue, now))
    /\ UNCHANGED <<opVars, cfgVars, nextUuid, trace_id_var, lpc, lStart, lTrace, lres,
                   metVars, request>>

----------------------------------------------------------------------------
(* Generic instrumentation helpers: log_execution and Timer of             *)
(* python-logging.py, track_time and Timer of python-metrics.py, each       *)
(* around a unit of work named database_query                               *)

Helpers == {"log_execution", "logging.Timer", "track_time", "metrics.Timer"}
LogHelpers == {"log_execution", "logging.Timer"}
MetricHelpers == {"track_time", "metrics.Timer"}

\* the keyword context a caller gives log_execution or logging.Timer: the
\* documented one, one that names fields the formatter computes, and one
\* that names an attribute of LogRecord
UsersContext == [table |-> "users"]
ReservedContext ==
    [table |-> "users", trace_id |-> "caller-trace", service |-> "caller-service",
     level |-> "caller-level", function |-> "caller-function"]
AttributeContext == [name |-> "users"]

\* the labels dict a caller gives track_time or metrics.Timer: the documented
\* one, and one with a label the series does not declare
SearchLabelDict == [collection |-> "documents", operation |-> "search"]
StatusLabelDict == [collection |-> "documents", status |-> "error"]

OpInput(helper, is_async, context, labels) ==
    [helper |-> helper, is_async |-> is_async, context |-> context, labels |-> labels]

\* the helper, and whether the work awaits (the decorators pick async_wrapper
\* by asyncio.iscoroutinefunction; a with block may hold an await), with the
\* context and labels of the docstrings
OpInputs ==
    {OpInput(h, a, UsersContext, SearchLabelDict) : h \in Helpers, a \in BOOLEAN}

\* the same with every context and every labels dict a caller can pass
CallerInputs ==
    {OpInput(h, a, c, SearchLabelDict) :
        h \in LogHelpers, a \in BOOLEAN,
        c \in {UsersContext, ReservedContext, AttributeContext}}
    \cup {OpInput(h, a, UsersContext, l) :
        h \in MetricHelpers, a \in BOOLEAN, l \in {SearchLabelDict, StatusLabelDict}}

NoOp == OpInput(NoValue, FALSE, UsersContext, SearchLabelDict)

Return(v) == [kind |-> "return", value |-> v, exc |-> NoValue]
Raised(e) == [kind |-> "raise", value |-> NoValue, exc |-> e]
NoWork == [kind |-> "none", value |-> NoValue, exc |-> NoValue]

WorkOutcomes == {Return("rows"), Raised("ValueError"), Raised("CancelledError")}

\* str(e), and whether "except Exception" catches e (CancelledError derives
\* from BaseException)
ExcMessage(e) == IF e = "ValueError" THEN "bad row" ELSE ""
IsException(e) == e # "CancelledError"

\* the last line of the traceback that exc_info=True adds to the record
ExcInfo(e) == e \o ": " \o ExcMessage(e)

\* the labels track_time and metrics.Timer were given
SearchLabels == <<"documents", "search">>

\* Histogram.labels(**labels): the child for the values when the names are the
\* series' label names, ValueError("Incorrect label names") otherwise
LabelNames == {"collection", "operation"}
LabelsOk(labels) == DOMAIN labels = LabelNames
LabelValues(labels) == <<labels.collection, labels.operation>>
LabelError == "ValueError: Incorrect label names"

\* faulty variant: the async wrapper forgets the caller's context
OpContext_async_bare(o) ==
    IF o.helper = "log_execution"
    THEN (IF o.is_async THEN [operation |-> "database_query"]
          ELSE [operation |-> "database_query"] @@ o.context)
    ELSE o.context

\* the context of the helper's records: log_execution adds the operation
OpContext(o) ==
    IF o.helper = "log_execution"
    THEN [operation |-> "database_query"] @@ o.context
    ELSE o.context

\* where the helper's logger calls are
OpSite(o, call) ==
    CASE o.helper = "log_execution" /\ o.is_async ->
            [funcName |-> "async_wrapper",
             lineno |-> CASE call = "start" -> 225 [] call = "completed" -> 231
                          [] call = "failed" -> 241]
      [] o.helper = "log_execution" /\ ~o.is_async ->
            [funcName |-> "sync_wrapper",
             lineno |-> CASE call = "start" -> 260 [] call = "completed" -> 266
                          [] call = "failed" -> 276]
      [] OTHER ->
            [funcName |-> IF call = "start" THEN "__enter__" ELSE "__exit__",
             lineno |-> CASE call = "start" -> 320 [] call = "completed" -> 327
                          [] call = "failed" -> 336]

\* logger.debug(f"Starting {operation}", extra=context)
StartRecord(o, t) ==
    LogRecord(DEBUG, "Starting database_query", OpSite(o, "start").lineno,
              OpSite(o, "start").funcName, OpContext(o), NoValue, t)

\* logger.info(f"Completed {operation}", extra={..., duration_ms, status})
CompletedRecord(o, start, t) ==
    LogRecord(INFO, "Completed database_query", OpSite(o, "completed").lineno,
              OpSite(o, "completed").funcName,
              [duration_ms |-> DurationMs(start, t), status |-> "success"]
                  @@ OpContext(o),
              NoValue, t)

\* logger.error(f"Failed {operation}", extra={..., error, error_type}, exc_info=True)
FailedRecord(o, start, e, t) ==
    LogRecord(ERROR, "Failed database_query", OpSite(o, "failed").lineno,
              OpSite(o, "failed").funcName,
              [duration_ms |-> DurationMs(start, t), status |-> "error",
               error |-> ExcMessage(e), error_type |-> e]
                  @@ OpContext(o),
              ExcInfo(e), t)

\* Logger.makeRecord, reached when the level is enabled: an extra key that is
\* an attribute of LogRecord raises KeyError("Attempt to overwrite ...")
RecordAttributes ==
    {"message", "asctime", "name", "msg", "args", "levelname", "levelno",
     "pathname", "filename", "module", "lineno", "funcName", "created"}
Raises(record) ==
    /\ record.levelno >= LOG_LEVEL
    /\ DOMAIN record.extra \cap RecordAttributes # {}

\* a logger call of a helper: nothing is written when it raises
Log(stream, task, record) ==
    IF Raises(record) THEN stream ELSE Emit(stream, trace_id_var, task, record)

\* before the work: the two logging helpers log, the two metrics helpers do not
OpStartLog(stream, task, o, t) ==
    IF o.helper \in LogHelpers
    THEN Log(stream, task, StartRecord(o, t))
    ELSE stream

\* the exception the call before the work raises, outside any try
OpStartError(o, t) ==
    IF o.helper \in LogHelpers /\ Raises(StartRecord(o, t))
    THEN "KeyError" ELSE NoValue

\* faulty variant: every helper ends as under "except Exception", so a
\* scope left by a BaseException writes no record
OpEndLog_except(stream, task, o, start, work, t) ==
    IF o.helper \notin LogHelpers THEN stream
    ELSE IF work.kind = "return"
    THEN Log(stream, task, CompletedRecord(o, start, t))
    ELSE IF IsException(work.exc)
    THEN Log(stream, task, FailedRecord(o, start, work.exc, t))
    ELSE stream

\* after the work: log_execution's "except Exception" misses a BaseException
\* and catches what its own logger.info raised, Timer.__exit__ sees every
\* exception
OpEndLog(stream, task, o, start, work, t) ==
    CASE o.helper = "log_execution" ->
            IF work.kind = "return"
            THEN IF Raises(CompletedRecord(o, start, t))
                 THEN Log(stream, task, FailedRecord(o, start, "KeyError", t))
                 ELSE Log(stream, task, CompletedRecord(o, start, t))
            ELSE IF IsException(work.exc)
            THEN Log(stream, task, FailedRecord(o, start, work.exc, t))
            ELSE stream
      [] o.helper = "logging.Timer" ->
            IF work.kind = "return"
            THEN Log(stream, task, CompletedRecord(o, start, t))
            ELSE Log(stream, task, FailedRecord(o, start, work.exc, t))
      [] OTHER -> stream

\* after the work: metric.labels(**labels).observe(duration), in track_time's
\* finally and in metrics.Timer.__exit__
OpEndMetric(metric, o, start, t) ==
    IF o.helper \in MetricHelpers /\ LabelsOk(o.labels)
    THEN HistogramObserve(metric, DurationBuckets, LabelValues(o.labels),
                          Elapsed(start, t))
    ELSE metric

\* the exception the calls after the work raise: from the logger inside
\* log_execution's try or except clause or inside Timer.__exit__, from
\* labels() inside track_time's finally or metrics.Timer.__exit__
OpEndError(o, start, work, t) ==
    CASE o.helper = "log_execution" ->
            IF work.kind = "return"
            THEN (IF Raises(CompletedRecord(o, start, t)) THEN "KeyError" ELSE NoValue)
            ELSE IF IsException(work.exc) /\ Raises(FailedRecord(o, start, work.exc, t))
            THEN "KeyError" ELSE NoValue
      [] o.helper = "logging.Timer" ->
            IF work.kind = "return"
            THEN (IF Raises(CompletedRecord(o, start, t)) THEN "KeyError" ELSE NoValue)
            ELSE IF Raises(FailedRecord(o, start, work.exc, t))
            THEN "KeyError" ELSE NoValue
      [] OTHER -> IF LabelsOk(o.labels) THEN NoValue ELSE LabelError

\* faulty variant: the exception is swallowed (no raise, __exit__ returning True)
Propagate_swallow(o, work) ==
    IF work.kind = "raise" THEN Return(NoValue) ELSE work

\* what the caller gets: return result, raise, finally, and __exit__ returning
\* None all hand on the work's own result or exception
Propagate(o, work) == work

\* what the caller gets once the calls after the work have run
OpResult(o, start, work, t) ==
    IF OpEndError(o, start, work, t) = NoValue
    THEN Propagate(o, work)
    ELSE Raised(OpEndError(o, start, work, t))

reqVars == <<cfgVars, logVars, metVars, request, hpc, hres>>

\* a helper around awaited work, up to the await; the work is not reached
\* when the call before it raises
OpEnterFrom(o, inputs) ==
    /\ opc[o] = "idle"
    /\ \E i \in inputs :
          /\ i.is_async
          /\ op' = [op EXCEPT ![o] = i]
          /\ log' = OpStartLog(log, o, i, now)
          /\ IF OpStartError(i, now) = NoValue
             THEN /\ opc' = [opc EXCEPT ![o] = "working"]
                  /\ UNCHANGED ores
             ELSE /\ opc' = [opc EXCEPT ![o] = "done"]
                  /\ ores' = [ores EXCEPT ![o] = Raised(OpStartError(i, now))]
    /\ oStart' = [oStart EXCEPT ![o] = now]
    /\ UNCHANGED <<cfgVars, nextUuid, trace_id_var, lpc, lStart, lTrace, lres,
                   metVars, appVars, owork, vector_search_duration>>

OpEnter(o) == OpEnterFrom(o, OpInputs)

\* the awaited work ends
OpWork(o) ==
    /\ opc[o] = "working"
    /\ \E w \in WorkOutcomes, d \in Delays :
          /\ owork' = [owork EXCEPT ![o] = w]
          /\ now' = now + d
    /\ opc' = [opc EXCEPT ![o] = "worked"]
    /\ UNCHANGED <<reqVars, op, oStart, ores, vector_search_duration>>

\* the helper resumes
OpExit(o) ==
    /\ opc[o] = "worked"
    /\ log' = OpEndLog(log, o, op[o], oStart[o], owork[o], now)
    /\ vector_search_duration' =
          OpEndMetric(vector_search_duration, op[o], oStart[o], now)
    /\ ores' = [ores EXCEPT ![o] = OpResult(op[o], oStart[o], owork[o], now)]
    /\ opc' = [opc EXCEPT ![o] = "done"]
    /\ UNCHANGED <<cfgVars, nextUuid, trace_id_var, lpc, lStart, lTrace, lres,
                   metVars, appVars, op, oStart, owork>>

\* a helper around work that does not await: start, work and end in one step
OpSyncFrom(o, inputs) ==
    /\ opc[o] = "idle"
    /\ \E i \in inputs :
          /\ ~i.is_async
          /\ op' = [op EXCEPT ![o] = i]
          /\ IF OpStartError(i, now) = NoValue
             THEN \E w \in WorkOutcomes, d \in Delays :
                    /\ owork' = [owork EXCEPT ![o] = w]
                    /\ now' = now + d
                    /\ log' = OpEndLog(OpStartLog(log, o, i, now), o, i, now, w, now + d)
                    /\ vector_search_duration' =
                          OpEndMetric(vector_search_duration, i, now, now + d)
                    /\ ores' = [ores EXCEPT ![o] = OpResult(i, now, w, now + d)]
             ELSE /\ log' = OpStartLog(log, o, i, now)
                  /\ ores' = [ores EXCEPT ![o] = Raised(OpStartError(i, now))]
                  /\ UNCHANGED <<owork, now, vector_search_duration>>
    /\ oStart' = [oStart EXCEPT ![o] = now]
    /\ opc' = [opc EXCEPT ![o] = "done"]
    /\ UNCHANGED <<cfgVars, nextUuid, trace_id_var, lpc, lStart, lTrace, lres,
                   metVars, request, hpc, hres>>

OpSync(o) == OpSyncFrom(o, OpInputs)

\* the helpers as any caller may use them
CallerEnter(o) == OpEnterFrom(o, CallerInputs)
CallerSync(o) == OpSyncFrom(o, CallerInputs)

\* the task is a request's: LoggingMiddleware.dispatch has bound a fresh token
\* in it before the operation starts; a task without is outside any request
RequestTask(o) ==
    /\ opc[o] = "idle"
    /\ lTrace[o] = NoValue
    /\ LET trace_id == AssignTraceId(NoValue, nextUuid + 1)
       IN  /\ trace_id_var' = set_trace_id(trace_id_var, o, trace_id)
           /\ lTrace' = [lTrace EXCEPT ![o] = trace_id]
    /\ nextUuid' = nextUuid + 1
    /\ UNCHANGED <<cfgVars, log, lpc, lStart, lres, metVars, appVars, opVars>>

----------------------------------------------------------------------------
(* update_db_connection_pool, called by the application with its pool's sizes *)

Databases == {"main", "replica"}
PoolStates == {"total", "idle", "active"}

\* faulty variant: the gauge is cleared before the three series are set
update_db_connection_pool_reset(pool, database, total, idle, active) ==
    GaugeSet(GaugeSet(GaugeSet(NoChildren, <<database, "total">>, total),
                      <<database, "idle">>, idle),
             <<database, "active">>, active)

\* the three set() calls, in the order of the code
update_db_connection_pool(pool, database, total, idle, active) ==
    GaugeSet(GaugeSet(GaugeSet(pool, <<database, "total">>, total),
                      <<database, "idle">>, idle),
             <<database, "active">>, active)

UpdatePool ==
    /\ \E database \in Databases, total, idle, active \in PoolSizes :
          db_connection_pool' =
              update_db_connection_pool(db_connection_pool, database,
                                        total, idle, active)
    /\ UNCHANGED <<cfgVars, logVars, appVars, opVars, mpc, mStart, mEnd, mres,
                   active_requests, http_requests_total, http_request_duration,
                   http_request_size, http_response_size>>

----------------------------------------------------------------------------
(* Specifications *)

InitState ==
    /\ now = 0
    /\ nextUuid = 0
    /\ trace_id_var = [r \in Requests |-> NoValue]
    /\ log = <<>>
    /\ request = [r \in Requests |-> NoRequest]
    /\ lpc = [r \in Requests |-> "idle"]
    /\ lStart = [r \in Requests |-> 0]
    /\ lTrace = [r \in Requests |-> NoValue]
    /\ lres = [r \in Requests |-> NoResult]
    /\ mpc = [r \in Requests |-> "idle"]
    /\ mStart = [r \in Requests |-> 0]
    /\ mEnd = [r \in Requests |-> 0]
    /\ mres = [r \in Requests |-> NoResult]
    /\ hpc = [r \in Requests |-> "idle"]
    /\ hres = [r \in Requests |-> NoResult]
    /\ active_requests = 0
    /\ http_requests_total = NoChildren
    /\ http_request_duration = NoChildren
    /\ http_request_size = NoChildren
    /\ http_response_size = NoChildren
    /\ opc = [r \in Requests |-> "idle"]
    /\ op = [r \in Requests |-> NoOp]
    /\ oStart = [r \in Requests |-> 0]
    /\ owork = [r \in Requests |-> NoWork]
    /\ ores = [r \in Requests |-> NoWork]
    /\ vector_search_duration = NoChildren
    /\ db_connection_pool = NoChildren

\* requests through the middleware chain
Init ==
    /\ ENVIRONMENT \in Environments
    /\ LOG_LEVEL \in LogLevels
    /\ chain \in Chains
    /\ InitState

Next ==
    \E r \in Requests :
        \/ Receive(r)
        \/ LogEnter(r)
        \/ LogExit(r)
        \/ MetEnter(r)
        \/ MetExit(r)
        \/ Handler(r)

Spec == Init /\ [][Next]_vars

\* instrumented operations outside the middleware chain
InitOps ==
    /\ ENVIRONMENT \in Environments
    /\ LOG_LEVEL \in OpLogLevels
    /\ chain = <<"logging">>
    /\ InitState

NextOps ==
    \E o \in Requests :
        \/ OpEnter(o)
        \/ OpWork(o)
        \/ OpExit(o)
        \/ OpSync(o)

SpecOps == InitOps /\ [][NextOps]_vars

\* instrumented operations as any caller may use them, inside and outside
\* request tasks
InitCallers ==
    /\ ENVIRONMENT \in Environments
    /\ LOG_LEVEL \in OpLogLevels
    /\ chain = <<"logging">>
    /\ InitState

NextCallers ==
    \E o \in Requests :
        \/ RequestTask(o)
        \/ CallerEnter(o)
        \/ OpWork(o)
        \/ OpExit(o)
        \/ CallerSync(o)

SpecCallers == InitCallers /\ [][NextCallers]_vars

\* the application reporting its connection pools
InitPool ==
    /\ ENVIRONMENT = "production"
    /\ LOG_LEVEL = INFO
    /\ chain = <<"metrics">>
    /\ InitState

NextPool == UpdatePool

SpecPool == InitPool /\ [][NextPool]_vars

----------------------------------------------------------------------------
(* Reading the stream and the registry *)

RECURSIVE SumOver(_, _)
SumOver(f, S) ==
    IF S = {} THEN 0
    ELSE LET x == CHOOSE y \in S : TRUE
         IN  f[x] + SumOver(f, S \ {x})

\* a counter's total over its children, a histogram child's and a
\* histogram's number of observations
CounterTotal(metric) == SumOver(metric, DOMAIN metric)
ChildCount(child) == SumOver(child.buckets, DOMAIN child.buckets)
HistogramCount(metric) ==
    SumOver([l \in DOMAIN metric |-> ChildCount(metric[l])], DOMAIN metric)
HistogramSum(metric) ==
    SumOver([l \in DOMAIN metric |-> metric[l].sum], DOMAIN metric)

CounterValue(metric, labels) ==
    IF labels \in DOMAIN metric THEN metric[labels] ELSE 0

\* get_metrics: generate_latest renders a histogram child as one cumulative
\* sample per upper bound (le), the last one +Inf, and a count
BucketSample(child, i) == SumOver(child.buckets, 1..i)
CountSample(child) == BucketSample(child, Len(child.buckets))

\* get_metrics(): the snapshot a scrape takes between two awaits, here the
\* samples of http_requests_total and the _count samples of
\* http_request_duration_seconds
get_metrics ==
    [http_requests_total |-> http_requests_total,
     http_request_duration_count |->
        [labels \in DOMAIN http_request_duration |->
            CountSample(http_request_duration[labels])]]

\* the positions in the stream of a task's records with a given message
RecordsOf(r, message) ==
    {i \in 1..Len(log) : log[i].task = r /\ log[i].doc.message = message}

TaskRecords(r) == {i \in 1..Len(log) : log[i].task = r}

HasTrace(doc) == "trace_id" \in DOMAIN doc
TraceOf(doc) == IF HasTrace(doc) THEN doc.trace_id ELSE NoValue
Json == ENVIRONMENT # "development"

\* the requests whose downstream call MetricsMiddleware has awaited to its end
MetricsResumed == {r \in Requests : mpc[r] = "done" /\ Pc(Below("metrics"), r) = "done"}
MetricsAwaiting == {r \in Requests : mpc[r] = "pending"}
\* the requests whose int(content-length) raised on entry
MetricsRefused == {r \in Requests : mpc[r] = "done" /\ Pc(Below("metrics"), r) = "idle"}

----------------------------------------------------------------------------
(* Claims *)

\* C1: once every request handled by MetricsMiddleware.dispatch has finished,
\* whether call_next returned or raised, the http_requests_active gauge is
\* back at the value it had before the requests (0). The code has no
\* finally around call_next, so this fails when the handler raises.
C1_GaugeRestored ==
    (InChain("metrics") /\ MetricsAwaiting = {} /\ MetricsRefused = {})
        => active_requests = 0

\* C5: however the downstream call ends (return, raise, cancellation), the
\* middleware cleanup has run by the time the request's task ends: the gauge
\* counts only the requests still awaiting, every ended request has its
\* requests-total increment and duration observation, and its "Request
\* completed" record is in the stream.
C5_CleanupOnEveryExit ==
    /\ InChain("metrics") =>
          /\ active_requests = Cardinality(MetricsAwaiting \cup MetricsRefused)
          /\ CounterTotal(http_requests_total) = Cardinality(MetricsResumed)
          /\ HistogramCount(http_request_duration) = Cardinality(MetricsResumed)
    /\ (InChain("logging") /\ LOG_LEVEL <= INFO) =>
          \A r \in Requests :
              lpc[r] = "done" => RecordsOf(r, "Request completed") # {}

\* C6: instrumentation never changes the outcome: when the handler returned a
\* response the chain returns a response, and when the handler raised E the
\* chain raises E. int() of a response content-length that is no integer
\* raises ValueError after the handler returned.
C6_OutcomePreserved ==
    \A r \in Requests :
        (Ended(r) /\ hpc[r] = "done") =>
            /\ Outcome(r).kind = hres[r].kind
            /\ Outcome(r).exc = hres[r].exc

\* the positions of the two records LoggingMiddleware writes for a task
DispatchRecords(r) ==
    RecordsOf(r, "Incoming request") \cup RecordsOf(r, "Request completed")

\* the task took its token from a non-empty inbound X-Trace-ID header
Inbound(r) == Truthy(request[r].x_trace_id)

\* C2 (as claimed): a request's "Incoming request" and "Request completed"
\* records carry one and the same trace token, and two requests in flight at
\* the same time never have the same token.
C2_TokenPerRequest ==
    /\ \A r \in Requests : \A i, j \in DispatchRecords(r) :
          /\ HasTrace(log[i].doc)
          /\ log[i].doc.trace_id = log[j].doc.trace_id
    /\ \A r, q \in Requests :
          (r # q /\ lpc[r] = "pending" /\ lpc[q] = "pending")
              => lTrace[r] # lTrace[q]

\* C2 (amended): in the JSON format a request's "Incoming request" and
\* "Request completed" records carry one and the same trace token, whatever
\* the interleaving; the records of two requests carry the same token only
\* when both requests brought it in the same non-empty inbound X-Trace-ID
\* header; in the development format no record carries a token.
C2_TokenPerRequestJson ==
    /\ Json =>
          \A r \in Requests : \A i, j \in DispatchRecords(r) :
              /\ HasTrace(log[i].doc)
              /\ log[i].doc.trace_id = log[j].doc.trace_id
    /\ Json =>
          \A r, q \in Requests :
              \A i \in DispatchRecords(r), j \in DispatchRecords(q) :
                  (r # q /\ TraceOf(log[i].doc) = TraceOf(log[j].doc))
                      => /\ Inbound(r)
                         /\ request[q].x_trace_id = request[r].x_trace_id
    /\ ~Json => \A i \in 1..Len(log) : ~HasTrace(log[i].doc)

\* two requests in flight together, the second one entered and finished while
\* the first awaited, and both records of each are in the JSON stream
C2_Witness ==
    /\ Json
    /\ \E r, q \in Requests :
          /\ r # q
          /\ ~Inbound(r) /\ ~Inbound(q)
          /\ \E i \in RecordsOf(r, "Incoming request"),
                j \in RecordsOf(q, "Incoming request"),
                k \in RecordsOf(q, "Request completed"),
                l \in RecordsOf(r, "Request completed") :
                  i < j /\ j < k /\ k < l

\* C3 (as claimed): a request without an inbound trace header (absent or
\* empty) gets a fresh token unlike every other request's, and the token is
\* in every log record emitted during the request and in the X-Trace-ID
\* response header.
C3_FreshTokenEverywhere ==
    \A r \in Requests :
        (lpc[r] # "idle" /\ ~Inbound(r)) =>
            /\ Truthy(lTrace[r])
            /\ \A q \in Requests : (q # r /\ lpc[q] # "idle") => lTrace[q] # lTrace[r]
            /\ \A i \in TaskRecords(r) : TraceOf(log[i].doc) = lTrace[r]
            /\ (lpc[r] = "done" /\ lres[r].kind = "response")
                  => lres[r].x_trace_id = lTrace[r]

\* C3 (amended): a request without an inbound trace header (absent or empty)
\* gets a fresh token unlike every other request's; the token is in the
\* X-Trace-ID header of the response LoggingMiddleware returns and, when the
\* log format is JSON (ENVIRONMENT is not development), in every log record
\* emitted during the request.
C3_FreshTokenJson ==
    \A r \in Requests :
        (lpc[r] # "idle" /\ ~Inbound(r)) =>
            /\ Truthy(lTrace[r])
            /\ \A q \in Requests : (q # r /\ lpc[q] # "idle") => lTrace[q] # lTrace[r]
            /\ Json => \A i \in TaskRecords(r) : TraceOf(log[i].doc) = lTrace[r]
            /\ (lpc[r] = "done" /\ lres[r].kind = "response")
                  => lres[r].x_trace_id = lTrace[r]
            /\ (Ended(r) /\ Outcome(r).kind = "response")
                  => Outcome(r).x_trace_id = lTrace[r]

\* two requests without a usable header, one with an empty one, both answered,
\* the handler's own record among those written
C3_Witness ==
    /\ Json
    /\ \E r, q \in Requests :
          /\ r # q
          /\ request[r].x_trace_id = "" /\ request[q].x_trace_id = NoValue
          /\ request[q] # NoRequest
          /\ Ended(r) /\ Outcome(r).kind = "response"
          /\ Ended(q) /\ Outcome(q).kind = "response"
          /\ InChain("logging")
          /\ RecordsOf(r, "Fetching users") # {}
          /\ RecordsOf(r, "Request completed") # {}

\* C4 (as claimed): with an inbound X-Trace-ID header of non-empty value V,
\* V is the token: the request's log records carry V and the response's
\* X-Trace-ID header is V.
C4_InboundTokenEverywhere ==
    \A r \in Requests :
        (lpc[r] # "idle" /\ Inbound(r)) =>
            /\ \A i \in TaskRecords(r) : TraceOf(log[i].doc) = request[r].x_trace_id
            /\ (lpc[r] = "done" /\ lres[r].kind = "response")
                  => lres[r].x_trace_id = request[r].x_trace_id

\* C4 (amended): with an inbound X-Trace-ID header of non-empty value V, V is
\* bound as the token unchanged; the X-Trace-ID header of the response equals
\* V and, when the log format is JSON (ENVIRONMENT is not development), the
\* request's log records carry V.
C4_InboundTokenJson ==
    \A r \in Requests :
        (lpc[r] # "idle" /\ Inbound(r)) =>
            /\ lTrace[r] = request[r].x_trace_id
            /\ get_trace_id(trace_id_var, r) = request[r].x_trace_id
            /\ Json => \A i \in TaskRecords(r) :
                          TraceOf(log[i].doc) = request[r].x_trace_id
            /\ (lpc[r] = "done" /\ lres[r].kind = "response")
                  => lres[r].x_trace_id = request[r].x_trace_id
            /\ (Ended(r) /\ Outcome(r).kind = "response")
                  => Outcome(r).x_trace_id = request[r].x_trace_id

\* a request that brought V1 has been answered, the handler had set another
\* X-Trace-ID itself, and the records are in the JSON stream
C4_Witness ==
    /\ Json
    /\ \E r \in Requests :
          /\ request[r].x_trace_id = "V1"
          /\ Ended(r) /\ Outcome(r).kind = "response"
          /\ hres[r].x_trace_id = "handler-trace"
          /\ RecordsOf(r, "Incoming request") # {}
          /\ RecordsOf(r, "Request completed") # {}

\* the requests whose increment of http_requests_total has run
Counted == {r \in Requests : mpc[r] = "done" /\ mres[r].kind = "response"}

\* C8: no lost updates: under any interleaving of requests through
\* MetricsMiddleware, the value of http_requests_total for a label tuple is
\* the number of increments performed for that tuple by all requests.
C8_NoLostUpdates ==
    /\ \A r \in Counted :
          LET labels == HttpLabels(request[r], mres[r])
          IN  CounterValue(http_requests_total, labels) =
                  Cardinality({q \in Counted :
                                  HttpLabels(request[q], mres[q]) = labels})
    /\ CounterTotal(http_requests_total) = Cardinality(Counted)

\* two requests that were inside dispatch at the same time have both
\* incremented the same child
C8_Witness ==
    \E r, q \in Counted :
        /\ r # q
        /\ HttpLabels(request[r], mres[r]) = HttpLabels(request[q], mres[q])
        /\ mStart[r] < mEnd[q] /\ mStart[q] < mEnd[r]
        /\ CounterValue(http_requests_total, HttpLabels(request[r], mres[r])) >= 2

\* C9: the response the middleware chain returns is the handler's response
\* with status code, body and every other header unchanged; the one change
\* instrumentation makes is setting the X-Trace-ID header (to the request's
\* token, by LoggingMiddleware).
C9_ResponseUnmodified ==
    \A r \in Requests :
        (Ended(r) /\ Outcome(r).kind = "response") =>
            /\ hres[r].kind = "response"
            /\ [Outcome(r) EXCEPT !.x_trace_id = hres[r].x_trace_id] = hres[r]
            /\ IF InChain("logging")
               THEN Outcome(r).x_trace_id = lTrace[r]
               ELSE Outcome(r).x_trace_id = hres[r].x_trace_id

\* a response through both middlewares whose handler had set X-Trace-ID and a
\* content-length, and one through MetricsMiddleware alone
C9_Witness ==
    \E r \in Requests :
        /\ Ended(r) /\ Outcome(r).kind = "response"
        /\ \/ /\ Len(chain) = 2
              /\ hres[r].x_trace_id = "handler-trace"
              /\ Outcome(r).x_trace_id # "handler-trace"
              /\ Outcome(r).status_code = 404
           \/ /\ chain = <<"metrics">>
              /\ hres[r].content_length = "7"
        /\ \A q \in Requests : Ended(q)

\* C10: within one request the trace token is assigned before the "Incoming
\* request" record is written (the record carries it), that record is written
\* before the downstream call and before "Request completed", the gauge is
\* incremented before it is decremented (it never counts fewer than the
\* requests awaiting), and the duration in the completion record and in the
\* duration histogram is measured from the one start time read before the
\* downstream call.
C10_OrderWithinRequest ==
    /\ \A r \in Requests :
          /\ Json => \A i \in RecordsOf(r, "Incoming request") :
                        /\ Truthy(lTrace[r])
                        /\ TraceOf(log[i].doc) = lTrace[r]
          /\ (InChain("logging") /\ LOG_LEVEL <= INFO
                  /\ Pc(Below("logging"), r) # "idle")
                => RecordsOf(r, "Incoming request") # {}
          /\ LOG_LEVEL <= INFO =>
                \A k \in RecordsOf(r, "Request completed") :
                    \E i \in RecordsOf(r, "Incoming request") : i < k
          /\ Json =>
                \A k \in RecordsOf(r, "Request completed") :
                    \A i \in RecordsOf(r, "Incoming request") :
                        log[k].doc.duration_ms =
                            (log[k].doc.timestamp - log[i].doc.timestamp) * 10
    /\ active_requests >= Cardinality(MetricsAwaiting)
    /\ HistogramSum(http_request_duration) =
          SumOver([r \in Requests |-> mEnd[r] - mStart[r]], Counted)

\* both middlewares, the first request overtaken by the second, and a
\* completion record with a duration above zero: the records of the two
\* requests are interleaved in the stream
C10_Witness ==
    /\ Json
    /\ Len(chain) = 2
    /\ \E r, q \in Requests :
          /\ r # q
          /\ r \in Counted /\ q \in Counted
          /\ mEnd[r] - mStart[r] > 0
          /\ \E i \in RecordsOf(r, "Incoming request"),
                j \in RecordsOf(q, "Incoming request"),
                k \in RecordsOf(q, "Request completed"),
                l \in RecordsOf(r, "Request completed") :
                  /\ i < j /\ j < k /\ k < l
                  /\ log[l].doc.duration_ms > 0

----------------------------------------------------------------------------
(* Claims about the helpers, under SpecOps *)

OpRaised(o) == opc[o] = "done" /\ owork[o].kind = "raise"
LogHelper(o) == op[o].helper \in {"log_execution", "logging.Timer"}

LevelOf(doc) == IF "level" \in DOMAIN doc THEN doc.level ELSE doc.levelname

\* a label tuple with an error status in it
ErrorLabels(labels) == \E i \in 1..Len(labels) : labels[i] = "error"

----------------------------------------------------------------------------
(* Claims about the completion record and the HTTP series, under Spec *)

\* the requests for which call_next handed LoggingMiddleware a response
Answered == {r \in Requests : lpc[r] = "done" /\ lres[r].kind = "response"}

\* the severity the claim gives a status code
SeverityFor(s) ==
    IF s >= 500 THEN "ERROR"
    ELSE IF s >= 400 /\ s < 500 THEN "WARNING"
    ELSE "INFO"

\* the severity passes the logger's minimum level
Admitted(s) ==
    \/ s >= 500 /\ LOG_LEVEL <= ERROR
    \/ s >= 400 /\ s < 500 /\ LOG_LEVEL <= WARNING
    \/ s < 400 /\ LOG_LEVEL <= INFO

\* C11 (as claimed): for every response with status code s returned to
\* LoggingMiddleware, exactly one "Request completed" record is emitted, with
\* severity ERROR if s >= 500, WARNING if 400 <= s < 500, INFO otherwise.
C11_CompletionSeverity ==
    \A r \in Answered :
        /\ Cardinality(RecordsOf(r, "Request completed")) = 1
        /\ \A k \in RecordsOf(r, "Request completed") :
              LevelOf(log[k].doc) = SeverityFor(lres[r].status_code)

\* C11 (amended): for every response with status code s that call_next
\* returns to LoggingMiddleware.dispatch, one completion log call is made with
\* severity ERROR if s >= 500, WARNING if 400 <= s < 500, INFO otherwise; its
\* record is written to the stream exactly once when LOG_LEVEL admits that
\* severity (always at the default INFO) and not at all otherwise, and it
\* carries the response's status code. No completion record is written for a
\* request whose call_next has not returned a response.
C11_CompletionSeverityAdmitted ==
    \A r \in Requests :
        /\ r \in Answered =>
              /\ Cardinality(RecordsOf(r, "Request completed")) =
                    (IF Admitted(lres[r].status_code) THEN 1 ELSE 0)
              /\ \A k \in RecordsOf(r, "Request completed") :
                    /\ LevelOf(log[k].doc) = SeverityFor(lres[r].status_code)
                    /\ Json => log[k].doc.status_code = lres[r].status_code
        /\ r \notin Answered => RecordsOf(r, "Request completed") = {}

\* at level INFO one request was answered 503 and another 404, and both
\* completion records are in the stream
C11_Witness ==
    /\ LOG_LEVEL = INFO
    /\ \E r, q \in Answered :
          /\ lres[r].status_code = 503 /\ lres[q].status_code = 404
          /\ \E k \in RecordsOf(r, "Request completed") : LevelOf(log[k].doc) = "ERROR"
          /\ \E k \in RecordsOf(q, "Request completed") : LevelOf(log[k].doc) = "WARNING"

\* the duration MetricsMiddleware observed for a request, and the requests
\* observed under a label tuple
Observed(r) == Elapsed(mStart[r], mEnd[r])
CountedUnder(labels) ==
    {r \in Counted : HttpLabels(request[r], mres[r]) = labels}

\* C12: after the durations of n requests have been observed into
\* http_request_duration, for every upper bound b the bucket count reported
\* for b is the number of observed durations <= b, and the reported
\* observation count is n, for any order and interleaving of the requests.
C12_BucketCounts ==
    /\ \A labels \in DOMAIN http_request_duration :
          LET child == http_request_duration[labels]
          IN  /\ \A i \in 1..Len(DurationBuckets) :
                    BucketSample(child, i) =
                        Cardinality({r \in CountedUnder(labels) :
                                        Observed(r) <= DurationBuckets[i]})
              /\ CountSample(child) = Cardinality(CountedUnder(labels))
              /\ child.sum = SumOver([r \in Requests |-> Observed(r)],
                                     CountedUnder(labels))
    /\ \A r \in Counted :
          HttpLabels(request[r], mres[r]) \in DOMAIN http_request_duration
    /\ HistogramCount(http_request_duration) = Cardinality(Counted)

\* one child holds two observations of overlapping requests, one equal to the
\* first upper bound and one above it
C12_Witness ==
    \E r, q \in Counted :
        /\ r # q
        /\ HttpLabels(request[r], mres[r]) = HttpLabels(request[q], mres[q])
        /\ Observed(r) = DurationBuckets[1]
        /\ Observed(q) > DurationBuckets[1]
        /\ mStart[q] < mStart[r]
        /\ BucketSample(http_request_duration[HttpLabels(request[r], mres[r])], 1) = 1
        /\ BucketSample(http_request_duration[HttpLabels(request[r], mres[r])], 2) = 2

----------------------------------------------------------------------------
(* Claims about callers of the helpers, under SpecCallers *)

\* the task is a request's task: LoggingMiddleware bound a token in it
InRequest(o) == Truthy(lTrace[o])

\* C13: get_trace_id() returns the token bound by the caller's own task, or
\* none when no request is active in it: a token set in one request's task is
\* never what another task or code outside any request reads, in get_trace_id
\* or in a log record, and a task that starts after the one that set a token
\* has completed reads none.
C13_TraceIsolation ==
    /\ \A o \in Requests :
          /\ get_trace_id(trace_id_var, o) = lTrace[o]
          /\ \A p \in Requests :
                (p # o /\ InRequest(p)) => get_trace_id(trace_id_var, o) # lTrace[p]
    /\ Json =>
          \A i \in 1..Len(log) :
              /\ InRequest(log[i].task) => TraceOf(log[i].doc) = lTrace[log[i].task]
              /\ \A p \in Requests :
                    (p # log[i].task /\ InRequest(p)) => TraceOf(log[i].doc) # lTrace[p]

\* a request's task wrote a record with its token and has completed; a task
\* outside any request started afterwards and its record has no token
C13_Witness ==
    /\ Json
    /\ \E o, p \in Requests :
          /\ InRequest(o) /\ opc[o] = "done"
          /\ ~InRequest(p) /\ opc[p] = "done"
          /\ get_trace_id(trace_id_var, p) = NoValue
          /\ \E i \in RecordsOf(o, "Completed database_query"),
                j \in RecordsOf(p, "Starting database_query") :
                  /\ i < j
                  /\ log[i].doc.trace_id = lTrace[o]
                  /\ ~HasTrace(log[j].doc)

\* C14: an instrumentation-internal failure never aborts the wrapped
\* operation: whenever log_execution, track_time or a Timer scope has
\* finished, also when one of its own log or metric calls failed, the work
\* was invoked and the caller received the work's own result or exception.
\* The helpers make their calls unguarded: an exception of logger.debug
\* leaves before the work, one of logger.info, logger.error or labels()
\* replaces the work's outcome.
C14_InstrumentationFailureContained ==
    \A o \in Requests :
        opc[o] = "done" =>
            /\ owork[o] # NoWork
            /\ ores[o] = owork[o]

----------------------------------------------------------------------------
(* Claims about MetricsMiddleware's observations, under Spec *)

\* the route templates the application declares; every path of RequestInputs
\* matches the one route
RouteTemplates == {"/users/{user_id}"}

HttpSeriesLabels ==
    DOMAIN http_requests_total \cup DOMAIN http_request_duration
        \cup DOMAIN http_response_size \cup DOMAIN http_request_size

\* C15: the endpoint label of every observation MetricsMiddleware makes is
\* the matched route template, never the raw request path, so the label
\* tuples of the HTTP series stay bounded by the declared routes whatever
\* path parameters are requested. The code labels with request.url.path.
C15_RouteTemplateLabel ==
    \A labels \in HttpSeriesLabels : labels[2] \in RouteTemplates

\* what call_next returned to MetricsMiddleware, and the requests for which
\* that was a response
Downstream(r) == Result(Below("metrics"), r)
Returned ==
    {r \in Requests : mpc[r] = "done" /\ Pc(Below("metrics"), r) = "done"
                        /\ Downstream(r).kind = "response"}

\* the label tuple the claim gives a request: method, route, status code, service
TupleOf(r) ==
    <<request[r].method, request[r].path, Downstream(r).status_code, SERVICE_NAME>>

\* a content-length header that int() accepts: absent, or an integer
Countable(v) == v = NoValue \/ IsInt(v)
Positive(v) == v # NoValue /\ IsInt(v) /\ IntOf(v) > 0

HistogramChildCount(metric, labels) ==
    IF labels \in DOMAIN metric THEN ChildCount(metric[labels]) ELSE 0

\* the requests inside dispatch whose gauge increment has not been undone
Undecremented ==
    {r \in Requests : mpc[r] # "idle" /\ ~(r \in Returned /\ mres[r].kind = "response")}

\* C16 (as claimed): on the success path each request whose downstream call
\* returned a response has caused exactly one increment of
\* http_requests_total, one observation in http_request_duration and one in
\* http_response_size, all under its tuple (method, route, status code,
\* service), and then one decrement of the gauge.
C16_SuccessPath ==
    /\ \A r \in Returned :
          LET n == Cardinality({q \in Returned : TupleOf(q) = TupleOf(r)})
          IN  /\ CounterValue(http_requests_total, TupleOf(r)) = n
              /\ HistogramChildCount(http_request_duration, TupleOf(r)) = n
              /\ HistogramChildCount(http_response_size, TupleOf(r)) = n
    /\ active_requests = Cardinality(Requests \ Returned) -
                            Cardinality({r \in Requests : mpc[r] = "idle"})

\* C16 (amended): each request whose call_next returns a response with an
\* absent or integer content-length causes exactly one increment of
\* http_requests_total and one observation of its duration in
\* http_request_duration, under the tuple (method, raw path, status code,
\* service), one observation in http_response_size under the same tuple
\* only when the content-length is above 0, and then one decrement of the
\* gauge; a response whose content-length is no integer makes dispatch raise
\* ValueError with nothing recorded and the gauge not decremented.
C16_SuccessPathRecorded ==
    /\ \A r \in Returned :
          LET same == {q \in Returned : TupleOf(q) = TupleOf(r)}
              n == Cardinality({q \in same : Countable(Downstream(q).content_length)})
              sized == Cardinality({q \in same : Positive(Downstream(q).content_length)})
          IN  /\ CounterValue(http_requests_total, TupleOf(r)) = n
              /\ HistogramChildCount(http_request_duration, TupleOf(r)) = n
              /\ HistogramChildCount(http_response_size, TupleOf(r)) = sized
              /\ mres[r] = IF Countable(Downstream(r).content_length)
                           THEN Downstream(r) ELSE Raise("ValueError")
    /\ \A labels \in DOMAIN http_requests_total \cup DOMAIN http_request_duration
                        \cup DOMAIN http_response_size :
          \E r \in Returned : TupleOf(r) = labels
    /\ active_requests = Cardinality(Undecremented)

\* two requests answered under one tuple, one response with content-length 7
\* and one that declares none, and the gauge back at 0
C16_Witness ==
    /\ active_requests = 0
    /\ \E r, q \in Returned :
          /\ r # q
          /\ Downstream(r).content_length = "7"
          /\ Downstream(q).content_length = NoValue
          /\ CounterValue(http_requests_total, TupleOf(r)) = 1
          /\ HistogramChildCount(http_response_size, TupleOf(r)) = 1
          /\ CounterValue(http_requests_total, TupleOf(q)) = 1
          /\ HistogramChildCount(http_response_size, TupleOf(q)) = 0

\* the requests that entered MetricsMiddleware.dispatch, and the label tuple
\* the claim gives a request's size: method, route, service
Entered == {r \in Requests : mpc[r] # "idle"}
SizeTupleOf(r) == <<request[r].method, request[r].path, SERVICE_NAME>>

\* C17 (as claimed): on entry, before the downstream call, dispatch observes
\* the declared size into http_request_size (labels method, route, service)
\* exactly once if the request declares a size and not at all if it declares
\* none; the observation stands when the handler later raises.
C17_RequestSizeObserved ==
    \A r \in Entered :
        HistogramChildCount(http_request_size, SizeTupleOf(r)) =
            Cardinality({q \in Entered : /\ SizeTupleOf(q) = SizeTupleOf(r)
                                         /\ request[q].content_length # NoValue})

\* C17 (amended): on entry, before the downstream call, dispatch observes the
\* declared size into http_request_size (labels method, raw path, service)
\* exactly once if the request's content-length is an integer above 0, and
\* not at all if it is absent or 0; the observation stands when the handler
\* later raises. A content-length that is no integer makes dispatch raise
\* ValueError before the downstream call, with no observation.
C17_RequestSizeObservedPositive ==
    /\ \A r \in Entered :
          LET same == {q \in Entered : SizeTupleOf(q) = SizeTupleOf(r)}
              sized == {q \in same : Positive(request[q].content_length)}
          IN  /\ HistogramChildCount(http_request_size, SizeTupleOf(r)) =
                    Cardinality(sized)
              /\ sized # {} =>
                    http_request_size[SizeTupleOf(r)].sum =
                        SumOver([q \in Requests |-> IntOf(request[q].content_length)],
                                sized)
              /\ ~Countable(request[r].content_length) =>
                    /\ mres[r] = Raise("ValueError")
                    /\ Pc(Below("metrics"), r) = "idle"
    /\ \A labels \in DOMAIN http_request_size :
          \E r \in Entered : SizeTupleOf(r) = labels
    /\ InChain("metrics") =>
          \A r \in Requests \ Entered : Pc(Below("metrics"), r) = "idle"

\* a request that declared 5 bytes was observed and its handler then raised;
\* another declared 0 bytes and was not observed
C17_Witness ==
    \E r, q \in Entered :
        /\ request[r].content_length = "5"
        /\ mpc[r] = "done" /\ Downstream(r).kind = "raise"
        /\ HistogramChildCount(http_request_size, SizeTupleOf(r)) = 1
        /\ http_request_size[SizeTupleOf(r)].sum = 5
        /\ request[q].content_length = "0"
        /\ HistogramChildCount(http_request_size, SizeTupleOf(q)) = 0

\* C18: in every emitted JSON record the reserved keys (timestamp, level,
\* service, environment, version, logger, file, line, function, message and
\* trace_id) hold the values the formatter computed: an extra field of the
\* caller with a reserved key's name never replaces the value, whether or not
\* a trace context is active (trace_id is the task's token, and is absent
\* when the task has none). add_fields writes trace_id only when the context
\* holds a token, so without one the caller's trace_id stays in the record.
C18_ReservedKeysKept ==
    Json =>
        \A i \in 1..Len(log) :
            LET doc == log[i].doc
            IN  /\ doc.timestamp \in 0..now
                /\ doc.level \in {"DEBUG", "INFO", "WARNING", "ERROR"}
                /\ doc.service = SERVICE_NAME
                /\ doc.environment = ENVIRONMENT
                /\ doc.version = APP_VERSION
                /\ doc.logger = SERVICE_NAME
                /\ doc.file = "python-logging.py"
                /\ doc.line \in Nat
                /\ doc.function \in {"async_wrapper", "sync_wrapper",
                                     "__enter__", "__exit__"}
                /\ doc.message \in {"Starting database_query",
                                    "Completed database_query",
                                    "Failed database_query"}
                /\ TraceOf(doc) = lTrace[log[i].task]

----------------------------------------------------------------------------
(* Claims about the wrappers and the timed scopes, under SpecOps *)

Wrapped(o) == op[o].helper \in {"log_execution", "track_time"}
Finished(o) == opc[o] = "done"
Suspended(o) == opc[o] \in {"working", "worked"}

\* the records that end an operation
EndRecords(o) ==
    RecordsOf(o, "Completed database_query") \cup RecordsOf(o, "Failed database_query")

\* a task's records in the order written, without where and when they were
\* written and the duration
SiteKeys == {"line", "function", "timestamp", "asctime", "duration_ms"}
Events(o) ==
    LET mine == SelectSeq(log, LAMBDA e : e.task = o)
    IN  [i \in 1..Len(mine) |->
            [k \in DOMAIN mine[i].doc \ SiteKeys |-> mine[i].doc[k]]]

MeasuredOps == {o \in Requests : Finished(o) /\ op[o].helper \in MetricHelpers}

Scoped(o) == op[o].helper \in {"logging.Timer", "metrics.Timer", "track_time"}
EndAdmitted(o) ==
    IF owork[o].kind = "return" THEN LOG_LEVEL <= INFO ELSE LOG_LEVEL <= ERROR

----------------------------------------------------------------------------
(* Claims about the registry as other tasks see it, under Spec *)

\* C21: in every reachable state, under any interleaving of requests through
\* MetricsMiddleware, http_requests_active is non-negative and equals the
\* number of requests that have run the entry increment and have not yet
\* left dispatch. Dispatch is left without the decrement when call_next or
\* int() of a content-length raises, so the gauge then exceeds that number.
C21_GaugeCountsInFlight ==
    /\ active_requests >= 0
    /\ active_requests = Cardinality({r \in Requests : mpc[r] = "pending"})

\* C22: at every point where another task can see the registry (every
\* suspension point, every snapshot of get_metrics), for each label tuple
\* (method, endpoint, status code, service) the value of http_requests_total
\* equals the observation count of http_request_duration_seconds: the
\* increment and the observation of one request are never seen apart.
C22_CounterMatchesDurationCount ==
    LET snapshot == get_metrics
    IN  /\ DOMAIN snapshot.http_requests_total =
              DOMAIN snapshot.http_request_duration_count
        /\ \A labels \in DOMAIN snapshot.http_requests_total :
              snapshot.http_requests_total[labels] =
                  snapshot.http_request_duration_count[labels]

\* a snapshot taken while one request is still awaiting its handler and
\* another, which entered later, has been recorded after some time
C22_Witness ==
    \E r, q \in Requests :
        /\ r # q
        /\ mpc[r] = "pending"
        /\ q \in Counted
        /\ mStart[r] <= mStart[q]
        /\ Observed(q) > 0
        /\ get_metrics.http_requests_total[HttpLabels(request[q], mres[q])] = 1
        /\ get_metrics.http_request_duration_count[HttpLabels(request[q], mres[q])] = 1

----------------------------------------------------------------------------
(* Claims about update_db_connection_pool, under SpecPool *)

PoolKeys(database) == {<<database, state>> : state \in PoolStates}

\* C23: update_db_connection_pool(database, total, idle, active) sets exactly
\* the three series (database, "total"), (database, "idle") and (database,
\* "active") of db_connection_pool to the given values and leaves the series
\* of every other database and every other metric as they were; calling it
\* twice with the same arguments leaves the same state as calling it once.
C23_PoolUpdateFrame ==
    /\ \A database \in Databases : \A total, idle, active \in PoolSizes :
          LET once == update_db_connection_pool(db_connection_pool, database,
                                                total, idle, active)
              twice == update_db_connection_pool(once, database, total, idle, active)
          IN  /\ once[<<database, "total">>] = total
              /\ once[<<database, "idle">>] = idle
              /\ once[<<database, "active">>] = active
              /\ DOMAIN once = DOMAIN db_connection_pool \cup PoolKeys(database)
              /\ \A labels \in DOMAIN db_connection_pool \ PoolKeys(database) :
                    once[labels] = db_connection_pool[labels]
              /\ twice = once
    /\ \A database \in Databases :
          \/ PoolKeys(database) \cap DOMAIN db_connection_pool = {}
          \/ PoolKeys(database) \subseteq DOMAIN db_connection_pool
    /\ DOMAIN db_connection_pool \subseteq Databases \X PoolStates
    /\ active_requests = 0
    /\ http_requests_total = NoChildren
    /\ http_request_duration = NoChildren
    /\ http_request_size = NoChildren
    /\ http_response_size = NoChildren
    /\ vector_search_duration = NoChildren

\* the pool of main has been reported as 2 total, 1 idle, 1 active, and the
\* pool of replica, reported as 1, 0, 1, has kept its values
C23_Witness ==
    /\ DOMAIN db_connection_pool = PoolKeys("main") \cup PoolKeys("replica")
    /\ db_connection_pool[<<"main", "total">>] = 2
    /\ db_connection_pool[<<"main", "idle">>] = 1
    /\ db_connection_pool[<<"main", "active">>] = 1
    /\ db_connection_pool[<<"replica", "total">>] = 1
    /\ db_connection_pool[<<"replica", "idle">>] = 0
    /\ db_connection_pool[<<"replica", "active">>] = 1

====
